---- MODULE Spec2Model ----
(***************************************************************************)
(* The minibatch cycling generator of the batch-training notebook          *)
(* (def generator(arrays, batch_size)) and the training loop that pulls    *)
(* n_batch * n_epoch batches from it.                                      *)
(*                                                                         *)
(* An array is a sequence of rows; row r (0-based) of every input array    *)
(* holds the value r, so a batch shows which rows it was cut from.         *)
(***************************************************************************)
EXTENDS Integers, Sequences, FiniteSets

\* ------------------------------------------------------------------ bounds
MaxL == 10       \* longest input array
MaxB == 10       \* largest batch size
MaxCalls == 12   \* production calls followed on one generator
MaxN == 6        \* largest training set of the training loop

VARIABLES
  arrays,      \* the generator's argument: a sequence of arrays
  batch_size,  \* the generator's argument
  starts,      \* the generator's local list of cursors, one per array
  batches,     \* the list most recently yielded (<<>> before the first yield)
  trace,       \* history: one record per production call
  it,          \* the training loop's iteration counter
  seen         \* history: rows of X_train fed since the current block began

vars == <<arrays, batch_size, starts, batches, trace, it, seen>>

\* ------------------------------------------------------------ the arrays
\* an array of L rows, row r (0-based) holding r
MakeArray(L) == [r \in 1..L |-> r - 1]

shape0(array) == Len(array)

Range(s) == {s[k] : k \in 1..Len(s)}

\* Python's clamping of one slice bound against a length n
PyIndex(i, n) ==
  IF i < 0 THEN (IF i + n < 0 THEN 0 ELSE i + n)
  ELSE (IF i > n THEN n ELSE i)

\* array[lo:hi] with 0-based, half-open, clamped bounds
PySlice(array, lo, hi) ==
  LET l == PyIndex(lo, Len(array))
      h == PyIndex(hi, Len(array))
  IN IF h <= l THEN << >> ELSE SubSeq(array, l + 1, h)

\* array[lo:]
PySliceFrom(array, lo) == PySlice(array, lo, Len(array))

\* array[:hi]
PySliceTo(array, hi) == PySlice(array, 0, hi)

\* --------------------------------------------- the body of the for loop
stop(start, B) == start + B

diff_offByOne(array, start, B) == stop(start, B) - shape0(array) - 1

diff(array, start, B) == stop(start, B) - shape0(array)

NoWrap_strict(array, start, B) == diff(array, start, B) < 0

\* the test `if diff <= 0`
NoWrap(array, start, B) == diff(array, start, B) <= 0

BatchOf_noPrefix(array, start, B) ==
  IF NoWrap(array, start, B)
  THEN PySlice(array, start, stop(start, B))
  ELSE PySliceFrom(array, start)

BatchOf_swapped(array, start, B) ==
  IF NoWrap(array, start, B)
  THEN PySlice(array, start, stop(start, B))
  ELSE PySliceTo(array, diff(array, start, B)) \o PySliceFrom(array, start)

BatchOf_offByOne(array, start, B) ==
  IF NoWrap(array, start, B)
  THEN PySlice(array, start + 1, stop(start, B) + 1)
  ELSE PySliceFrom(array, start) \o PySliceTo(array, diff(array, start, B))

\* the value bound to `batch`
BatchOf(array, start, B) ==
  IF NoWrap(array, start, B)
  THEN PySlice(array, start, stop(start, B))
  ELSE PySliceFrom(array, start) \o PySliceTo(array, diff(array, start, B))

StartAfter_forgotWrap(array, start, B) == start + B

StartAfter_clamped(array, start, B) ==
  IF NoWrap(array, start, B) THEN start + B
  ELSE PyIndex(diff(array, start, B), shape0(array))

StartAfter_resetZero(array, start, B) ==
  IF NoWrap(array, start, B) THEN start + B ELSE 0

\* the value stored to starts[i]
StartAfter(array, start, B) ==
  IF NoWrap(array, start, B) THEN start + B ELSE diff(array, start, B)

\* ------------------------------------------------- one pass of the loop
NextBatches_sharedStart(arrs, sts, B) ==
  [i \in 1..Len(arrs) |-> BatchOf(arrs[i], sts[1], B)]

NextBatches(arrs, sts, B) ==
  [i \in 1..Len(arrs) |-> BatchOf(arrs[i], sts[i], B)]

NextStarts_onlyFirst(arrs, sts, B) ==
  [i \in 1..Len(arrs) |->
     IF i = 1 THEN StartAfter(arrs[i], sts[i], B) ELSE sts[i]]

NextStarts_sharedLength(arrs, sts, B) ==
  [i \in 1..Len(arrs) |-> StartAfter(arrs[1], sts[i], B)]

NextStarts(arrs, sts, B) ==
  [i \in 1..Len(arrs) |-> StartAfter(arrs[i], sts[i], B)]

\* one production call: the while-body up to and including the yield
generator ==
  /\ batches' = NextBatches(arrays, starts, batch_size)
  /\ starts' = NextStarts(arrays, starts, batch_size)
  /\ trace' = Append(trace, [before |-> starts,
                             out |-> NextBatches(arrays, starts, batch_size),
                             after |-> NextStarts(arrays, starts, batch_size)])
  /\ UNCHANGED <<arrays, batch_size>>

\* the cursor of generator([array], B) after n production calls
RECURSIVE SoloStart(_, _, _)
SoloStart(array, B, n) ==
  IF n = 0 THEN 0 ELSE StartAfter(array, SoloStart(array, B, n - 1), B)

\* ----------------------------------------------------- the generator alone
ArrayLists ==
  {<<MakeArray(l)>> : l \in 0..MaxL}
    \cup {<<MakeArray(l1), MakeArray(l2)>> : l1 \in 0..MaxL, l2 \in 0..MaxL}

Init ==
  /\ arrays \in ArrayLists
  /\ batch_size \in 0..MaxB
  /\ starts = [i \in 1..Len(arrays) |-> 0]
  /\ batches = << >>
  /\ trace = << >>
  /\ it = 0
  /\ seen = {}

NextBatch ==
  /\ Len(trace) < MaxCalls
  /\ generator
  /\ UNCHANGED <<it, seen>>

Next == NextBatch

Spec == Init /\ [][Next]_vars

\* ------------------------------------------------------ the training loop
N == shape0(arrays[1])

M == batch_size

n_epoch == 5

n_batch == N \div M

n_iter == n_batch * n_epoch

\* data = generator([X_train, y_train], M), both arrays of N rows
TrainInit ==
  /\ \E n \in 1..MaxN :
       /\ arrays = <<MakeArray(n), MakeArray(n)>>
       /\ batch_size \in 1..n
  /\ starts = [i \in 1..Len(arrays) |-> 0]
  /\ batches = << >>
  /\ trace = << >>
  /\ it = 0
  /\ seen = {}

\* one iteration of `for _ in range(inference.n_iter)`
training_loop ==
  /\ it < n_iter
  /\ generator
  /\ it' = it + 1
  /\ seen' = IF it % n_batch = 0
             THEN Range(batches'[1])
             ELSE seen \cup Range(batches'[1])

TrainNext == training_loop

SpecTrain == TrainInit /\ [][TrainNext]_vars

\* ================================================================ claims
\* helpers of the claims
InBounds(i) == 1 <= batch_size /\ batch_size <= shape0(arrays[i])

Arrs == 1..Len(arrays)

Calls == 1..Len(trace)

CeilDiv(a, b) == (a + b - 1) \div b

\* C1: with 1 <= B <= L every batch produced so far, wrapping or not, has
\* exactly B rows.
C1_BatchHasBRows ==
  \A i \in Arrs : InBounds(i) =>
    \A t \in Calls : Len(trace[t].out[i]) = batch_size

\* a call that wrapped around the end, followed by further calls
C1_Witness ==
  \E i \in Arrs : /\ InBounds(i)
                  /\ Len(trace) >= 3
                  /\ \E t \in Calls :
                       /\ t < Len(trace)
                       /\ trace[t].before[i] + batch_size > shape0(arrays[i])
                       /\ trace[t].before[i] < shape0(arrays[i])

\* C2 as stated: with 1 <= B <= L, at every yield 0 <= start < length.
C2_CursorBelowLength ==
  \A i \in Arrs : InBounds(i) =>
    (0 <= starts[i] /\ starts[i] < shape0(arrays[i]))

\* C2 amended: with 1 <= B <= L, at every yield 0 <= start <= length; the
\* cursor rests at length (not at 0) after a slice that ends at the array's end.
C2_CursorAtMostLength ==
  \A i \in Arrs : InBounds(i) =>
    /\ 0 <= starts[i]
    /\ starts[i] <= shape0(arrays[i])
    /\ \A t \in Calls :
         (trace[t].before[i] + batch_size = shape0(arrays[i]))
           => trace[t].after[i] = shape0(arrays[i])

\* the cursor rests one past the last row, B < L
C2_Witness ==
  \E i \in Arrs : /\ InBounds(i)
                  /\ batch_size < shape0(arrays[i])
                  /\ starts[i] = shape0(arrays[i])
                  /\ Len(trace) >= 2

\* C3: with 1 <= B <= L, any ceil(L/B) consecutive production calls produce
\* every row at least once, and move the cursor to a value congruent to
\* (cursor before + ceil(L/B) * B) modulo L.
C3_FullCycle ==
  \A i \in Arrs : InBounds(i) =>
    LET L == shape0(arrays[i])
        K == CeilDiv(L, batch_size)
    IN \A s \in Calls : (s + K - 1 <= Len(trace)) =>
         /\ UNION {Range(trace[u].out[i]) : u \in s..(s + K - 1)}
              = Range(arrays[i])
         /\ trace[s + K - 1].after[i] % L
              = (trace[s].before[i] + K * batch_size) % L

\* a window of ceil(L/B) >= 2 calls that starts at a cursor other than 0 and
\* wraps, B not dividing L
C3_Witness ==
  \E i \in Arrs :
    /\ InBounds(i)
    /\ shape0(arrays[i]) % batch_size # 0
    /\ \E s \in Calls :
         /\ trace[s].before[i] # 0
         /\ s + CeilDiv(shape0(arrays[i]), batch_size) - 1 <= Len(trace)
         /\ trace[s].after[i] < trace[s].before[i]

\* C4: with 1 <= B <= L, a call that finds start + B > L returns rows
\* [start, L) followed by rows [0, diff), diff = start + B - L, and leaves
\* the cursor at diff; for L = 10, B = 4, start = 8: rows 8,9,0,1, cursor 2.
C4_WrapStep ==
  \A i \in Arrs : InBounds(i) =>
    \A t \in Calls :
      LET L == shape0(arrays[i])
          start == trace[t].before[i]
          d == start + batch_size - L
      IN (start + batch_size > L) =>
           /\ trace[t].out[i]
                = [j \in 1..batch_size |->
                     IF j <= L - start THEN arrays[i][start + j]
                     ELSE arrays[i][j - (L - start)]]
           /\ trace[t].after[i] = d
           /\ (L = 10 /\ batch_size = 4 /\ start = 8) =>
                /\ trace[t].out[i] = <<8, 9, 0, 1>>
                /\ trace[t].after[i] = 2

\* the call at L = 10, B = 4, start = 8
C4_Witness ==
  \E i \in Arrs : \E t \in Calls :
    /\ shape0(arrays[i]) = 10
    /\ batch_size = 4
    /\ trace[t].before[i] = 8

\* C5: a call that finds start + B <= L returns rows start .. start+B-1 in
\* order, no row twice, and leaves the cursor at start + B.
C5_NoWrapStep ==
  \A i \in Arrs : \A t \in Calls :
    LET start == trace[t].before[i]
    IN (start + batch_size <= shape0(arrays[i])) =>
         /\ trace[t].out[i] = [j \in 1..batch_size |-> arrays[i][start + j]]
         /\ Cardinality(Range(trace[t].out[i])) = batch_size
         /\ trace[t].after[i] = start + batch_size

\* a non-wrapping call from the middle of the array, B >= 2
C5_Witness ==
  \E i \in Arrs : \E t \in Calls :
    /\ batch_size >= 2
    /\ trace[t].before[i] > 0
    /\ trace[t].before[i] + batch_size <= shape0(arrays[i])

\* C6 as stated: with B = L every call, the first included, returns the full
\* array and leaves the cursor where it was.
C6_CursorUnchanged ==
  \A i \in Arrs : (InBounds(i) /\ batch_size = shape0(arrays[i])) =>
    \A t \in Calls : /\ trace[t].out[i] = arrays[i]
                     /\ trace[t].after[i] = trace[t].before[i]

\* C6 amended: with B = L every call returns the full array; the first call
\* moves the cursor from 0 to L, every later call leaves it at L.
C6_FullArrayEachCall ==
  \A i \in Arrs : (InBounds(i) /\ batch_size = shape0(arrays[i])) =>
    \A t \in Calls :
      /\ trace[t].out[i] = arrays[i]
      /\ (t = 1) => (trace[t].before[i] = 0
                       /\ trace[t].after[i] = shape0(arrays[i]))
      /\ (t > 1) => (trace[t].before[i] = shape0(arrays[i])
                       /\ trace[t].after[i] = trace[t].before[i])

\* B = L >= 2, three calls made
C6_Witness ==
  \E i \in Arrs : /\ batch_size = shape0(arrays[i])
                  /\ batch_size >= 2
                  /\ Len(trace) >= 3

\* C7: one generator over two arrays of different lengths, 1 <= B <= both:
\* every call yields one batch per array, each of B rows, and each cursor
\* equals the cursor of a generator cycling that array alone.
C7_IndependentWrap ==
  (/\ Len(arrays) = 2
   /\ shape0(arrays[1]) # shape0(arrays[2])
   /\ InBounds(1) /\ InBounds(2)) =>
    /\ \A t \in Calls :
         /\ Len(trace[t].out) = 2
         /\ \A i \in Arrs :
              /\ Len(trace[t].out[i]) = batch_size
              /\ trace[t].after[i] = SoloStart(arrays[i], batch_size, t)
    /\ \A i \in Arrs : starts[i] = SoloStart(arrays[i], batch_size, Len(trace))

\* lengths 10 and 7, B = 4: a call on which the second array wraps and the
\* first does not, after the first array has wrapped on an earlier call
C7_Witness ==
  /\ Len(arrays) = 2
  /\ shape0(arrays[1]) = 10
  /\ shape0(arrays[2]) = 7
  /\ batch_size = 4
  /\ \E t \in Calls : \E u \in Calls :
       /\ u < t
       /\ trace[u].after[1] < trace[u].before[1]
       /\ trace[t].after[2] < trace[t].before[2]
       /\ trace[t].after[1] > trace[t].before[1]

HasRepeatedRow(batch) == Cardinality(Range(batch)) < Len(batch)

\* C8 as stated: with L < B <= 2L, on every call diff = start + B - L <= L
\* and the batch has exactly B rows, some of them repeated.
C8_EveryCallWellDefined ==
  \A i \in Arrs :
    (shape0(arrays[i]) < batch_size /\ batch_size <= 2 * shape0(arrays[i])) =>
      \A t \in Calls :
        /\ trace[t].before[i] + batch_size - shape0(arrays[i])
             <= shape0(arrays[i])
        /\ Len(trace[t].out[i]) = batch_size
        /\ HasRepeatedRow(trace[t].out[i])

\* C8 amended: with L < B <= 2L, on the first call diff = B - L <= L and the
\* batch has exactly B rows, some repeated; the cursor then grows by B - L a
\* call, and a later call yields B rows exactly when its diff is still <= L.
C8_FirstCallWellDefined ==
  \A i \in Arrs :
    (shape0(arrays[i]) < batch_size /\ batch_size <= 2 * shape0(arrays[i])) =>
      \A t \in Calls :
        LET d == trace[t].before[i] + batch_size - shape0(arrays[i])
        IN /\ (t = 1) => /\ d <= shape0(arrays[i])
                         /\ Len(trace[t].out[i]) = batch_size
                         /\ HasRepeatedRow(trace[t].out[i])
           /\ trace[t].after[i]
                = trace[t].before[i] + batch_size - shape0(arrays[i])
           /\ (Len(trace[t].out[i]) = batch_size) <=> (d <= shape0(arrays[i]))
           /\ Len(trace[t].out[i]) <= batch_size

\* L < B <= 2L: a later call whose diff exceeds L, after an earlier later
\* call whose diff did not
C8_Witness ==
  \E i \in Arrs :
    /\ shape0(arrays[i]) < batch_size
    /\ batch_size <= 2 * shape0(arrays[i])
    /\ \E t \in Calls : \E u \in Calls :
         /\ 1 < u /\ u < t
         /\ trace[u].before[i] + batch_size <= 2 * shape0(arrays[i])
         /\ trace[t].before[i] + batch_size > 2 * shape0(arrays[i])

\* C9: in the training loop every block of n_batch consecutive iterations
\* feeds every one of the N training rows at least once.
C9_BlockIsFullPass ==
  (it > 0 /\ n_batch > 0 /\ it % n_batch = 0) => seen = Range(arrays[1])

\* C10: with 1 <= B <= L, row j of the k-th batch of a fresh generator is
\* array[(k*B + j) mod L] (k, j 0-based).
C10_CyclicContiguity ==
  \A i \in Arrs : InBounds(i) =>
    \A t \in Calls :
      /\ Len(trace[t].out[i]) = batch_size
      /\ \A j \in 1..batch_size :
           trace[t].out[i][j]
             = arrays[i][(((t - 1) * batch_size + (j - 1))
                            % shape0(arrays[i])) + 1]

\* B does not divide L and the batches have gone round the array twice
C10_Witness ==
  \E i \in Arrs :
    /\ InBounds(i)
    /\ shape0(arrays[i]) % batch_size # 0
    /\ Len(trace) * batch_size > 2 * shape0(arrays[i])

\* C11: when all arrays of one generator have the same length, their cursors
\* are equal after every call and the j-th rows of the batches of one call
\* come from the same row index, also across a wrap-around.
C11_EqualLengthAlignment ==
  (\A i \in Arrs : shape0(arrays[i]) = shape0(arrays[1])) =>
    /\ \A i \in Arrs : starts[i] = starts[1]
    /\ \A t \in Calls : \A i \in Arrs :
         /\ trace[t].after[i] = trace[t].after[1]
         /\ Len(trace[t].out[i]) = Len(trace[t].out[1])
         /\ \A j \in 1..Len(trace[t].out[i]) :
              trace[t].out[i][j] = trace[t].out[1][j]

\* two arrays of one length, B not dividing it, a call that wrapped in the
\* middle of a batch and a call after it
C11_Witness ==
  /\ Len(arrays) = 2
  /\ shape0(arrays[1]) = shape0(arrays[2])
  /\ InBounds(1)
  /\ shape0(arrays[1]) % batch_size # 0
  /\ \E t \in Calls :
       /\ t < Len(trace)
       /\ trace[t].before[2] < shape0(arrays[2])
       /\ trace[t].before[2] + batch_size > shape0(arrays[2])

\* C12: with B = 0, or with an empty array and B >= 1, every call yields an
\* empty batch for that array; with B = 0 the cursor stays where it is, and
\* for the empty array it goes up by B on every call (B, 2B, 3B, ...).
C12_DegenerateConfigurations ==
  \A i \in Arrs : \A t \in Calls :
    /\ (batch_size = 0) =>
         /\ trace[t].out[i] = << >>
         /\ trace[t].after[i] = trace[t].before[i]
         /\ trace[t].after[i] = 0
    /\ (shape0(arrays[i]) = 0 /\ batch_size >= 1) =>
         /\ trace[t].out[i] = << >>
         /\ trace[t].after[i] = trace[t].before[i] + batch_size
         /\ trace[t].after[i] = t * batch_size

\* both degenerate cases after several calls: an empty array next to a
\* non-empty one with B >= 2, or B = 0 on a non-empty array
C12_Witness ==
  /\ Len(trace) >= 3
  /\ \/ /\ Len(arrays) = 2
        /\ shape0(arrays[1]) = 0
        /\ shape0(arrays[2]) > 0
        /\ batch_size >= 2
        /\ starts[1] = 3 * batch_size
     \/ /\ batch_size = 0
        /\ shape0(arrays[1]) > 0

====
